---- MODULE Spec2Model ----
(***************************************************************************)
(* A model of pest's StringInput (src/inputs/string_input.rs): an owned    *)
(* UTF-8 string and a byte cursor, with the operations of the Input trait. *)
(* The string is modelled as its sequence of bytes (0..255); characters    *)
(* are Unicode code points, encoded and decoded as UTF-8 does.             *)
(***************************************************************************)
EXTENDS Integers, Sequences, FiniteSets, TLC

(***************************************************************************)
(* Bounds of the exploration.                                              *)
(***************************************************************************)
\* longest buffer, in bytes
MaxLen == 3
\* longest literal given to matches, in bytes
MaxLit == 2
\* how far beyond len() an offset given to set_pos or line_col may lie
PosSlack == 1

\* longest buffer given to line_col alone, in bytes
MaxLineLen == 5

\* '\n' and '\r', the characters line_col tells apart from all others
LF == 10
CR == 13
\* characters of the buffers the cursor moves over: '\n', '\r' (one byte
\* each), U+00E9 (two bytes), U+20AC (three bytes)
Alphabet == {LF, CR, 233, 8364}
\* characters given to between as bounds: those of the buffers and U+00EA,
\* a two-byte character just above U+00E9
RangeChars == Alphabet \cup {234}
\* characters of the buffers given to line_col alone: '\n', '\r', 'a',
\* U+00E9
LineAlphabet == {LF, CR, 97, 233}

(***************************************************************************)
(* UTF-8, as char::len_utf8, the encoder behind String and str::from_utf8  *)
(* compute it.                                                             *)
(***************************************************************************)
len_utf8(c) ==
    IF c < 128 THEN 1
    ELSE IF c < 2048 THEN 2
    ELSE IF c < 65536 THEN 3
    ELSE 4

encode_utf8(c) ==
    IF c < 128 THEN <<c>>
    ELSE IF c < 2048 THEN <<192 + (c \div 64), 128 + (c % 64)>>
    ELSE IF c < 65536 THEN
        <<224 + (c \div 4096), 128 + ((c \div 64) % 64), 128 + (c % 64)>>
    ELSE <<240 + (c \div 262144), 128 + ((c \div 4096) % 64),
           128 + ((c \div 64) % 64), 128 + (c % 64)>>

RECURSIVE to_owned(_)
\* the bytes of the String made from a sequence of characters
to_owned(cs) ==
    IF cs = <<>> THEN <<>> ELSE encode_utf8(Head(cs)) \o to_owned(Tail(cs))

IsCont(b) == 128 <= b /\ b <= 191

\* width announced by a lead byte, 0 when the byte cannot start a character
lead_width(b) ==
    IF b < 128 THEN 1
    ELSE IF 194 <= b /\ b <= 223 THEN 2
    ELSE IF 224 <= b /\ b <= 239 THEN 3
    ELSE IF 240 <= b /\ b <= 244 THEN 4
    ELSE 0

\* is there one well-formed character at the head of bs (no overlong forms,
\* no surrogates, nothing above U+10FFFF)
head_valid(bs) ==
    LET w == lead_width(bs[1]) IN
    /\ w > 0
    /\ Len(bs) >= w
    /\ \A i \in 2..w : IsCont(bs[i])
    /\ (bs[1] = 224 => bs[2] >= 160)
    /\ (bs[1] = 237 => bs[2] <= 159)
    /\ (bs[1] = 240 => bs[2] >= 144)
    /\ (bs[1] = 244 => bs[2] <= 143)

RECURSIVE from_utf8_ok(_)
\* str::from_utf8(bs).is_ok()
from_utf8_ok(bs) ==
    IF bs = <<>> THEN TRUE
    ELSE /\ head_valid(bs)
         /\ from_utf8_ok(SubSeq(bs, lead_width(bs[1]) + 1, Len(bs)))

\* the code point of the character at the head of a valid byte sequence
decode_head(bs) ==
    LET w == lead_width(bs[1]) IN
    IF w = 1 THEN bs[1]
    ELSE IF w = 2 THEN (bs[1] - 192) * 64 + (bs[2] - 128)
    ELSE IF w = 3 THEN (bs[1] - 224) * 4096 + (bs[2] - 128) * 64 + (bs[3] - 128)
    ELSE (bs[1] - 240) * 262144 + (bs[2] - 128) * 4096
         + (bs[3] - 128) * 64 + (bs[4] - 128)

RECURSIVE chars(_)
\* str::chars(): the characters of a valid byte sequence, in order
chars(bs) ==
    IF bs = <<>> THEN <<>>
    ELSE <<decode_head(bs)>> \o chars(SubSeq(bs, lead_width(bs[1]) + 1, Len(bs)))

\* str::is_char_boundary
is_char_boundary(bs, i) ==
    \/ i = 0
    \/ i = Len(bs)
    \/ (i < Len(bs) /\ ~IsCont(bs[i + 1]))

(***************************************************************************)
(* Inputs of the exploration.                                              *)
(***************************************************************************)
SeqsUpTo(S, n) == UNION {[1..k -> S] : k \in 0..n}

\* every text over the characters A of at most n bytes, as bytes
Texts(A, n) == {to_owned(cs) : cs \in {x \in SeqsUpTo(A, n) : Len(to_owned(x)) <= n}}

\* the buffer of the line_col unit test: "a\rb\nc\r\nd"
TestLineColText == to_owned(<<97, CR, 98, LF, 99, CR, LF, 100>>)

Buffers == Texts(Alphabet, MaxLen)
Literals == Texts(Alphabet, MaxLit)
LineBuffers == Texts(LineAlphabet, MaxLineLen) \cup {TestLineColText}
Offsets(s) == 0..(Len(s) + PosSlack)

VARIABLES
    string,   \* StringInput.string, as bytes
    pos,      \* StringInput.pos
    saved,    \* the values pos() has returned to the caller so far
    last,     \* the last call: its name, arguments, cursor before, and outcome
    probe     \* what a caller that backtracks remembers of its save point

vars == <<string, pos, saved, last, probe>>

NoCall == [op |-> "new", lit |-> <<>>, left |-> 0, right |-> 0, arg |-> 0,
           arg2 |-> 0, prev |-> 0, ret |-> FALSE, lc |-> <<0, 0>>,
           text |-> <<>>, panic |-> FALSE]

\* a caller that has saved nothing
NoProbe == [set |-> FALSE, string |-> <<>>, at |-> 0, call |-> NoCall,
            after |-> 0, replayed |-> FALSE]

\* StringInput::new
Init ==
    /\ string \in Buffers
    /\ pos = 0
    /\ saved = {}
    /\ last = NoCall
    /\ probe = NoProbe

\* a panic ends the parse: nothing is called on the instance afterwards
Running == ~last.panic

\* Input::len
len == Len(string)

\* Input::pos
position ==
    /\ Running
    /\ saved' = saved \cup {pos}
    /\ last' = [NoCall EXCEPT !.op = "pos", !.arg = pos, !.prev = pos]
    /\ UNCHANGED <<string, pos>>

\* set_pos keeping the cursor within the buffer
set_pos_clamped(p) ==
    /\ Running
    /\ pos' = IF p > Len(string) THEN Len(string) ELSE p
    /\ last' = [NoCall EXCEPT !.op = "set_pos", !.arg = p, !.prev = pos]
    /\ UNCHANGED <<string, saved>>

\* set_pos moving the cursor forward only
set_pos_forward_only(p) ==
    /\ Running
    /\ pos' = IF p > pos THEN p ELSE pos
    /\ last' = [NoCall EXCEPT !.op = "set_pos", !.arg = p, !.prev = pos]
    /\ UNCHANGED <<string, saved>>

\* Input::set_pos
set_pos(p) ==
    /\ Running
    /\ pos' = p
    /\ last' = [NoCall EXCEPT !.op = "set_pos", !.arg = p, !.prev = pos]
    /\ UNCHANGED <<string, saved>>

\* slice_panics checking the bounds but not the character boundaries
slice_panics_bounds_only(s, start, end) ==
    start > end \/ end > Len(s)

\* when &self.string[start..end] panics: the range is reversed, or one of
\* its ends is no character boundary of the string (an end beyond len() is
\* none)
slice_panics(s, start, end) ==
    \/ start > end
    \/ ~is_char_boundary(s, start)
    \/ ~is_char_boundary(s, end)

\* slice_text taking the byte at end as well
slice_text_inclusive(s, start, end) ==
    SubSeq(s, start + 1, IF end < Len(s) THEN end + 1 ELSE end)

\* the bytes of &self.string[start..end]
slice_text(s, start, end) == SubSeq(s, start + 1, end)

\* Input::slice
slice(start, end) ==
    /\ Running
    /\ IF slice_panics(string, start, end) THEN
           last' = [NoCall EXCEPT !.op = "slice", !.arg = start, !.arg2 = end,
                                  !.prev = pos, !.panic = TRUE]
       ELSE
           last' = [NoCall EXCEPT !.op = "slice", !.arg = start, !.arg2 = end,
                                  !.prev = pos,
                                  !.text = slice_text(string, start, end)]
    /\ UNCHANGED <<string, pos, saved>>

\* matches_result with the end of the buffer excluded (to < len)
matches_result_short(s, p, lit) ==
    LET to == p + Len(lit) IN
    IF to < Len(s) THEN SubSeq(s, p + 1, to) = lit ELSE FALSE

\* matches_result refusing to look when no input is left at the cursor
matches_result_no_input(s, p, lit) ==
    LET to == p + Len(lit) IN
    IF p < Len(s) /\ to <= Len(s) THEN SubSeq(s, p + 1, to) = lit ELSE FALSE

\* matches_result comparing what is left of the buffer with the start of
\* the literal when the literal is longer than what is left
matches_result_clamped(s, p, lit) ==
    LET to == IF p + Len(lit) <= Len(s) THEN p + Len(lit) ELSE Len(s) IN
    IF p <= to THEN SubSeq(s, p + 1, to) = SubSeq(lit, 1, to - p) ELSE FALSE

\* the comparison of matches: the len(lit) bytes at the cursor against lit.
\* slice_unchecked does no boundary check and str equality compares bytes, so
\* a cursor inside a character is compared bytewise like any other.
matches_result(s, p, lit) ==
    LET to == p + Len(lit) IN
    IF to <= Len(s) THEN SubSeq(s, p + 1, to) = lit ELSE FALSE

\* matches moving the cursor before it compares
matches_eager(lit) ==
    /\ Running
    /\ LET to == pos + Len(lit)
           result == matches_result(string, pos, lit)
       IN /\ pos' = IF to <= Len(string) THEN to ELSE pos
          /\ last' = [NoCall EXCEPT !.op = "matches", !.lit = lit, !.prev = pos,
                                    !.ret = result]
    /\ UNCHANGED <<string, saved>>

\* matches consuming what it matched by draining it from the buffer
matches_draining(lit) ==
    /\ Running
    /\ LET to == pos + Len(lit)
           result == matches_result(string, pos, lit)
       IN /\ string' = IF result
                       THEN SubSeq(string, 1, pos) \o SubSeq(string, to + 1, Len(string))
                       ELSE string
          /\ last' = [NoCall EXCEPT !.op = "matches", !.lit = lit, !.prev = pos,
                                    !.ret = result]
    /\ UNCHANGED <<pos, saved>>

\* Input::matches
matches(lit) ==
    /\ Running
    /\ LET to == pos + Len(lit)
           result == matches_result(string, pos, lit)
       IN /\ pos' = IF result THEN to ELSE pos
          /\ last' = [NoCall EXCEPT !.op = "matches", !.lit = lit, !.prev = pos,
                                    !.ret = result]
    /\ UNCHANGED <<string, saved>>

\* the width check catching only a left bound wider than the right one
between_panics_oneway(left, right) == len_utf8(left) > len_utf8(right)

\* the width check of between: panic!("ranges should have same-sized UTF-8 limits")
between_panics(left, right) == len_utf8(left) # len_utf8(right)

\* between_result with the upper bound excluded
between_result_exclusive(s, p, left, right) ==
    LET to == p + len_utf8(left) IN
    IF to <= Len(s) THEN
        IF from_utf8_ok(SubSeq(s, p + 1, to)) THEN
            LET c == chars(SubSeq(s, p + 1, to))[1] IN left <= c /\ c < right
        ELSE FALSE
    ELSE FALSE

\* the range check of between once the widths agree
between_result(s, p, left, right) ==
    LET to == p + len_utf8(left) IN
    IF to <= Len(s) THEN
        IF from_utf8_ok(SubSeq(s, p + 1, to)) THEN
            LET c == chars(SubSeq(s, p + 1, to))[1] IN left <= c /\ c <= right
        ELSE FALSE
    ELSE FALSE

\* between advancing by one byte instead of the width of the bounds
between_one_byte(left, right) ==
    /\ Running
    /\ IF between_panics(left, right) THEN
           /\ pos' = pos
           /\ last' = [NoCall EXCEPT !.op = "between", !.left = left,
                                     !.right = right, !.prev = pos, !.panic = TRUE]
       ELSE
           LET result == between_result(string, pos, left, right) IN
           /\ pos' = IF result THEN pos + 1 ELSE pos
           /\ last' = [NoCall EXCEPT !.op = "between", !.left = left,
                                     !.right = right, !.prev = pos, !.ret = result]
    /\ UNCHANGED <<string, saved>>

\* between moving the cursor as soon as the bytes are there, before it
\* decodes them
between_eager(left, right) ==
    /\ Running
    /\ IF between_panics(left, right) THEN
           /\ pos' = pos
           /\ last' = [NoCall EXCEPT !.op = "between", !.left = left,
                                     !.right = right, !.prev = pos, !.panic = TRUE]
       ELSE
           LET result == between_result(string, pos, left, right) IN
           /\ pos' = IF pos + len_utf8(left) <= Len(string)
                      THEN pos + len_utf8(left) ELSE pos
           /\ last' = [NoCall EXCEPT !.op = "between", !.left = left,
                                     !.right = right, !.prev = pos, !.ret = result]
    /\ UNCHANGED <<string, saved>>

\* Input::between
between(left, right) ==
    /\ Running
    /\ IF between_panics(left, right) THEN
           /\ pos' = pos
           /\ last' = [NoCall EXCEPT !.op = "between", !.left = left,
                                     !.right = right, !.prev = pos, !.panic = TRUE]
       ELSE
           LET result == between_result(string, pos, left, right) IN
           /\ pos' = IF result THEN pos + len_utf8(left) ELSE pos
           /\ last' = [NoCall EXCEPT !.op = "between", !.left = left,
                                     !.right = right, !.prev = pos, !.ret = result]
    /\ UNCHANGED <<string, saved>>

Panicked == [panic |-> TRUE, lc |-> <<0, 0>>]
Returned(lc) == [panic |-> FALSE, lc |-> lc]

RECURSIVE find_same_line(_, _, _, _)
\* find with a lone '\r' resetting the column without starting a new line
find_same_line(cs, i, p, current) ==
    IF p = 0 THEN Returned(current)
    ELSE IF i >= Len(cs) THEN Panicked
    ELSE IF cs[i + 1] = CR THEN
        IF i + 1 < Len(cs) /\ cs[i + 2] = LF THEN
            IF p = 1 THEN find_same_line(cs, i + 2, p - 1, <<current[1] + 1, 1>>)
            ELSE find_same_line(cs, i + 2, p - 2, <<current[1] + 1, 1>>)
        ELSE find_same_line(cs, i + 1, p - 1, <<current[1], 1>>)
    ELSE IF cs[i + 1] = LF THEN
        find_same_line(cs, i + 1, p - 1, <<current[1] + 1, 1>>)
    ELSE find_same_line(cs, i + 1, p - 1, <<current[1], current[2] + 1>>)

RECURSIVE find_pair_unguarded(_, _, _, _)
\* find without the pos == 1 case of a "\r\n" pair: pos - 2 underflows there
find_pair_unguarded(cs, i, p, current) ==
    IF p = 0 THEN Returned(current)
    ELSE IF i >= Len(cs) THEN Panicked
    ELSE IF cs[i + 1] = CR THEN
        IF i + 1 < Len(cs) /\ cs[i + 2] = LF THEN
            IF p = 1 THEN Panicked
            ELSE find_pair_unguarded(cs, i + 2, p - 2, <<current[1] + 1, 1>>)
        ELSE find_pair_unguarded(cs, i + 1, p - 1, <<current[1] + 1, 1>>)
    ELSE IF cs[i + 1] = LF THEN
        find_pair_unguarded(cs, i + 1, p - 1, <<current[1] + 1, 1>>)
    ELSE find_pair_unguarded(cs, i + 1, p - 1, <<current[1], current[2] + 1>>)

RECURSIVE find(_, _, _, _)
\* the inner fn find of line_col: cs are the characters of the buffer, i of
\* them are already consumed from the iterator, p is what is left of the
\* offset, current the (line, column) so far
find(cs, i, p, current) ==
    IF p = 0 THEN Returned(current)
    ELSE IF i >= Len(cs) THEN Panicked    \* None => unreachable!()
    ELSE IF cs[i + 1] = CR THEN
        IF i + 1 < Len(cs) /\ cs[i + 2] = LF THEN
            IF p = 1 THEN find(cs, i + 2, p - 1, <<current[1] + 1, 1>>)
            ELSE find(cs, i + 2, p - 2, <<current[1] + 1, 1>>)
        ELSE find(cs, i + 1, p - 1, <<current[1] + 1, 1>>)
    ELSE IF cs[i + 1] = LF THEN find(cs, i + 1, p - 1, <<current[1] + 1, 1>>)
    ELSE find(cs, i + 1, p - 1, <<current[1], current[2] + 1>>)

\* line_col_of refusing the offset len() as well
line_col_of_strict(s, p) ==
    IF p >= Len(s) THEN Panicked
    ELSE find(chars(s), 0, p, <<1, 1>>)

\* line_col_of counting columns from 0
line_col_of_col0(s, p) ==
    IF p > Len(s) THEN Panicked
    ELSE find(chars(s), 0, p, <<1, 0>>)

\* line_col_of counting lines from 0
line_col_of_line0(s, p) ==
    IF p > Len(s) THEN Panicked
    ELSE find(chars(s), 0, p, <<0, 1>>)

\* what line_col(p) does on buffer s: panics, or returns (line, column)
line_col_of(s, p) ==
    IF p > Len(s) THEN Panicked     \* panic!("position out of bounds")
    ELSE find(chars(s), 0, p, <<1, 1>>)

\* Input::line_col
line_col(p) ==
    /\ Running
    /\ LET r == line_col_of(string, p) IN
       last' = [NoCall EXCEPT !.op = "line_col", !.arg = p, !.prev = pos,
                              !.lc = r.lc, !.panic = r.panic]
    /\ UNCHANGED <<string, pos, saved>>

(***************************************************************************)
(* Spec: any caller. Every operation with every argument, set_pos with any *)
(* offset up to PosSlack beyond the end.                                   *)
(***************************************************************************)
Next ==
    \/ (\E lit \in Literals : matches(lit)) /\ UNCHANGED probe
    \/ (\E left \in RangeChars, right \in RangeChars : between(left, right))
          /\ UNCHANGED probe
    \/ (\E p \in Offsets(string) : set_pos(p)) /\ UNCHANGED probe
    \/ (\E p \in Offsets(string) : line_col(p)) /\ UNCHANGED probe
    \/ (\E start \in Offsets(string), end \in Offsets(string) : slice(start, end))
          /\ UNCHANGED probe

Spec == Init /\ [][Next]_vars

(***************************************************************************)
(* SpecEngine: well-formed use by the matching engine. between only with   *)
(* bounds of equal width, set_pos only back to a value pos() has returned, *)
(* line_col only for the current position.                                 *)
(***************************************************************************)
NextEngine ==
    \/ (\E lit \in Literals : matches(lit)) /\ UNCHANGED probe
    \/ (\E left \in RangeChars, right \in RangeChars :
            len_utf8(left) = len_utf8(right) /\ between(left, right))
          /\ UNCHANGED probe
    \/ position /\ UNCHANGED probe
    \/ (\E p \in saved : set_pos(p)) /\ UNCHANGED probe
    \/ line_col(pos) /\ UNCHANGED probe

SpecEngine == Init /\ [][NextEngine]_vars

(***************************************************************************)
(* SpecLineCol: line_col alone, on every buffer of LineBuffers and every   *)
(* offset; the cursor plays no part in it.                                 *)
(***************************************************************************)
InitLineCol ==
    /\ string \in LineBuffers
    /\ pos = 0
    /\ saved = {}
    /\ last = NoCall
    /\ probe = NoProbe

NextLineCol == (\E p \in Offsets(string) : line_col(p)) /\ UNCHANGED probe

SpecLineCol == InitLineCol /\ [][NextLineCol]_vars

(***************************************************************************)
(* SpecBacktrack: a caller that backtracks. It saves pos() once, and       *)
(* remembers the buffer as it was then and the first call it makes from    *)
(* the save point with its outcome; it then calls matches and between as   *)
(* it likes, puts the cursor back with set_pos, and calls again, until it  *)
(* has seen the remembered call made once more.                            *)
(***************************************************************************)
\* two records of calls are of the same operation with the same arguments,
\* made from the same cursor
SameCall(a, b) ==
    /\ a.op = b.op
    /\ a.lit = b.lit
    /\ a.left = b.left
    /\ a.right = b.right
    /\ a.arg = b.arg
    /\ a.prev = b.prev

\* the caller saves p = pos()
save ==
    /\ ~probe.set
    /\ ~probe.replayed
    /\ position
    /\ probe' = [NoProbe EXCEPT !.set = TRUE, !.string = string, !.at = pos]

\* the caller's memory after a call: the first call from the save point is
\* remembered, a later one like it is noted as a replay
remember ==
    /\ ~probe.replayed
    /\ probe' =
         IF probe.set /\ probe.call.op = "new" /\ pos = probe.at
         THEN [probe EXCEPT !.call = last', !.after = pos']
         ELSE IF probe.set /\ SameCall(last', probe.call)
         THEN [probe EXCEPT !.replayed = TRUE]
         ELSE probe

\* the caller puts the cursor back to the save point
restore ==
    /\ probe.set
    /\ ~probe.replayed
    /\ set_pos(probe.at)
    /\ UNCHANGED probe

\* the caller goes on until it has seen its remembered call replayed
NextBacktrack ==
    \/ save
    \/ (\E lit \in Literals : matches(lit)) /\ remember
    \/ (\E left \in RangeChars, right \in RangeChars :
            len_utf8(left) = len_utf8(right) /\ between(left, right))
          /\ remember
    \/ restore

SpecBacktrack == Init /\ [][NextBacktrack]_vars

(***************************************************************************)
(* Vocabulary of the properties, stated without the operations above.      *)
(***************************************************************************)
\* the bytes of s at [p, p + Len(lit)) exist and are those of lit
BytesAt(s, p, lit) ==
    /\ p + Len(lit) <= Len(s)
    /\ \A i \in 1..Len(lit) : s[p + i] = lit[i]

\* the number of characters of s: one per byte that continues no character
NumChars(s) == Cardinality({i \in 1..Len(s) : ~IsCont(s[i])})

\* the byte offsets at which a character of s starts, and its end
Boundaries(s) ==
    {Len(to_owned(SubSeq(chars(s), 1, k))) : k \in 0..Len(chars(s))}

\* the character of s that starts at boundary p < Len(s)
CharAt(s, p) == chars(SubSeq(s, p + 1, Len(s)))[1]

\* offset k falls between the '\r' and the '\n' of a "\r\n" pair
InsideCRLF(s, k) ==
    LET cs == chars(s) IN
    k >= 1 /\ k < Len(cs) /\ cs[k] = CR /\ cs[k + 1] = LF

SingleByte(s) == \A i \in 1..Len(s) : s[i] < 128

\* the line breaks of the first n bytes of a single-byte text: every '\r',
\* and every '\n' that does not follow a '\r'
LineBreaks(s, n) ==
    Cardinality({i \in 1..n : \/ s[i] = CR
                              \/ (s[i] = LF /\ (i = 1 \/ s[i - 1] # CR))})

\* the characters of the first n bytes that follow their last line break
AfterLastBreak(s, n) ==
    Cardinality({i \in 1..n : \A j \in i..n : s[j] # CR /\ s[j] # LF})

(***************************************************************************)
(* Properties of matches.                                                  *)
(***************************************************************************)
\* C1: a matches(s) that returns true leaves the cursor at its value before
\* the call plus the byte length of s; one that returns false leaves the
\* cursor where it was.
MatchesMovesByLength ==
    last.op = "matches" =>
        /\ (last.ret => pos = last.prev + Len(last.lit))
        /\ (~last.ret => pos = last.prev)

\* a multi-byte literal matched away from the start of the buffer
MatchesMovedWitness ==
    /\ last.op = "matches"
    /\ last.ret
    /\ Len(last.lit) = 2
    /\ last.prev > 0

\* C2: matches(literal) returns true exactly when the bytes of the buffer at
\* [cursor, cursor + len(literal)) exist and equal the literal's.
MatchesIffBytesEqual ==
    last.op = "matches" => (last.ret <=> BytesAt(string, last.prev, last.lit))

\* a literal matched up to the very end of the buffer
MatchesToEndWitness ==
    /\ last.op = "matches"
    /\ last.ret
    /\ last.lit # <<>>
    /\ last.prev + Len(last.lit) = Len(string)

\* C3, as claimed: matches("") returns true and leaves the cursor alone in
\* every state matches, between and set_pos can reach.
EmptyLiteralAlwaysMatches ==
    (last.op = "matches" /\ last.lit = <<>>) => (last.ret /\ pos = last.prev)

\* C3, amended: matches("") never moves the cursor, and returns true exactly
\* when the cursor is not beyond the end of the buffer.
EmptyLiteralMatchesWithinBuffer ==
    (last.op = "matches" /\ last.lit = <<>>) =>
        /\ pos = last.prev
        /\ (last.ret <=> last.prev <= Len(string))

\* the empty literal matched with the cursor at the end of a buffer
EmptyLiteralWitness ==
    /\ last.op = "matches"
    /\ last.lit = <<>>
    /\ last.ret
    /\ last.prev = Len(string)
    /\ last.prev > 0

(***************************************************************************)
(* Properties of between.                                                  *)
(***************************************************************************)
\* C4: with bounds of one width w and the cursor on a character boundary,
\* between returns true exactly when a character starts at the cursor, is w
\* bytes wide and has its code point in [low, high]; the cursor then moves
\* by w, and stays where it was when between returns false.
BetweenTakesOneCharacter ==
    (/\ last.op = "between"
     /\ len_utf8(last.left) = len_utf8(last.right)
     /\ last.prev \in Boundaries(string)) =>
        LET w == len_utf8(last.left)
            hit == /\ last.prev < Len(string)
                   /\ len_utf8(CharAt(string, last.prev)) = w
                   /\ last.left <= CharAt(string, last.prev)
                   /\ CharAt(string, last.prev) <= last.right
        IN /\ ~last.panic
           /\ (last.ret <=> hit)
           /\ pos = IF last.ret THEN last.prev + w ELSE last.prev

\* a two-byte character taken by a two-byte range, after another character
BetweenTookWitness ==
    /\ last.op = "between"
    /\ last.ret
    /\ len_utf8(last.left) = 2
    /\ last.prev > 0
    /\ last.prev \in Boundaries(string)

\* C10: between with bounds of different widths panics, whatever the buffer
\* and the cursor are, and the cursor is what it was before the call.
BetweenWidthMismatchPanics ==
    (last.op = "between" /\ len_utf8(last.left) # len_utf8(last.right)) =>
        (last.panic /\ pos = last.prev)

\* a narrower left bound than the right one, with the cursor at the end of
\* the buffer
WidthMismatchAtEndWitness ==
    /\ last.op = "between"
    /\ len_utf8(last.left) < len_utf8(last.right)
    /\ last.prev = Len(string)
    /\ last.panic

(***************************************************************************)
(* Properties of the cursor under well-formed use (SpecEngine).            *)
(***************************************************************************)
\* C5: under matches, between and set_pos back to a value pos() returned,
\* the cursor is at most len() and lies on a character boundary.
CursorOnBoundary ==
    /\ 0 <= pos
    /\ pos <= Len(string)
    /\ pos \in Boundaries(string)

\* the cursor put back to a saved position after a multi-byte character,
\* from further on in the buffer
RestoredCursorWitness ==
    /\ last.op = "set_pos"
    /\ pos \in saved
    /\ pos > 0
    /\ pos < last.prev
    /\ string[1] >= 128

\* C8, as claimed: well-formed use never panics.
EngineNeverPanics == ~last.panic

(***************************************************************************)
(* Properties of line_col (SpecLineCol).                                   *)
(***************************************************************************)
\* C6, as claimed: for offsets p1 < p2 <= len(), line_col(p1) is on no later
\* line than line_col(p2), and on the same line its column is strictly
\* smaller.
LineColStrictlyMonotone ==
    (last.op = "line_col" /\ ~last.panic) =>
        \A p2 \in (last.arg + 1)..Len(string) :
            LET r2 == line_col_of(string, p2) IN
            ~r2.panic =>
                /\ last.lc[1] <= r2.lc[1]
                /\ (last.lc[1] = r2.lc[1] => last.lc[2] < r2.lc[2])

\* C6, amended: for offsets p1 < p2 at which line_col returns, line_col(p1)
\* is on no later line than line_col(p2); on the same line its column is
\* strictly smaller, unless p1 falls between the '\r' and the '\n' of a
\* "\r\n" pair and p2 = p1 + 1, where the two results are equal.
LineColMonotone ==
    (last.op = "line_col" /\ ~last.panic) =>
        \A p2 \in (last.arg + 1)..Len(string) :
            LET r2 == line_col_of(string, p2) IN
            ~r2.panic =>
                /\ last.lc[1] <= r2.lc[1]
                /\ (last.lc[1] = r2.lc[1] =>
                        \/ last.lc[2] < r2.lc[2]
                        \/ /\ InsideCRLF(string, last.arg)
                           /\ p2 = last.arg + 1
                           /\ last.lc = r2.lc)

\* line_col of an offset inside a "\r\n" pair that has text after it
LineColInsidePairWitness ==
    /\ last.op = "line_col"
    /\ ~last.panic
    /\ InsideCRLF(string, last.arg)
    /\ last.arg + 1 < Len(string)

\* C7: on a buffer of single-byte characters, for an offset that is not
\* inside a "\r\n" pair, line_col returns (1 + B, 1 + C): B the line
\* breaks of the prefix ("\r\n" counted once), C the characters of the
\* prefix after its last line break.
LineColCountsBreaks ==
    (/\ last.op = "line_col"
     /\ SingleByte(string)
     /\ last.arg <= Len(string)
     /\ ~InsideCRLF(string, last.arg)) =>
        /\ ~last.panic
        /\ last.lc = <<1 + LineBreaks(string, last.arg),
                       1 + AfterLastBreak(string, last.arg)>>

\* the last offset of the unit test's buffer: (4, 2) after a lone '\r', a
\* lone '\n' and a "\r\n" pair
LineColTestWitness ==
    /\ last.op = "line_col"
    /\ string = TestLineColText
    /\ last.arg = 8
    /\ last.lc = <<4, 2>>

BetweenUndecodableFails ==
    (/\ last.op = "between"
     /\ len_utf8(last.left) = len_utf8(last.right)
     /\ last.prev + len_utf8(last.left) <= Len(string)
     /\ \/ last.prev \notin Boundaries(string)
        \/ last.prev + len_utf8(last.left) \notin Boundaries(string)) =>
        (~last.ret /\ ~last.panic /\ pos = last.prev)

\* a two-byte range tried on the three-byte character at the cursor
BetweenOnWiderWitness ==
    /\ last.op = "between"
    /\ len_utf8(last.left) = 2
    /\ len_utf8(last.right) = 2
    /\ last.prev \in Boundaries(string)
    /\ last.prev + 3 <= Len(string)
    /\ len_utf8(CharAt(string, last.prev)) = 3
    /\ ~last.ret

\* a one-byte range tried with the cursor inside a multi-byte character
BetweenInsideCharWitness ==
    /\ last.op = "between"
    /\ len_utf8(last.left) = 1
    /\ len_utf8(last.right) = 1
    /\ last.prev \notin Boundaries(string)
    /\ last.prev < Len(string)
    /\ ~last.ret

(***************************************************************************)
(* Properties of slice.                                                    *)
(***************************************************************************)
\* the outcome of a slice call, as far as the caller sees it
SliceOutcome(l) == <<l.panic, l.text>>

\* C12: for a <= b <= len() on character boundaries, slice(a, b) returns
\* the bytes of the text in [a, b) whatever the cursor is, and the whole
\* text for (0, len()); it leaves the cursor and the buffer alone, and the
\* same call made again returns the same.
SliceReturnsTheText ==
    /\ [](( /\ last.op = "slice"
            /\ last.arg <= last.arg2
            /\ last.arg2 <= Len(string)
            /\ last.arg \in Boundaries(string)
            /\ last.arg2 \in Boundaries(string)) =>
              /\ ~last.panic
              /\ Len(last.text) = last.arg2 - last.arg
              /\ \A i \in 1..Len(last.text) : last.text[i] = string[last.arg + i]
              /\ ((last.arg = 0 /\ last.arg2 = Len(string)) => last.text = string)
              /\ pos = last.prev)
    /\ [][last'.op = "slice" => (pos' = pos /\ string' = string)]_vars
    /\ [][(/\ last.op = "slice"
            /\ last'.op = "slice"
            /\ last'.arg = last.arg
            /\ last'.arg2 = last.arg2) =>
              SliceOutcome(last') = SliceOutcome(last)]_vars

\* a multi-byte character sliced out of a buffer after its first character,
\* with the cursor moved away from the start
SliceWitness ==
    /\ last.op = "slice"
    /\ ~last.panic
    /\ last.arg > 0
    /\ Len(last.text) >= 2
    /\ pos > 0

\* C13: slice(start, end) panics whenever start > end, or end > len(), or
\* start or end is no character boundary, and then the cursor and the
\* buffer are what they were.
SliceMisusePanics ==
    /\ [](( /\ last.op = "slice"
            /\ \/ last.arg > last.arg2
               \/ last.arg2 > Len(string)
               \/ last.arg \notin Boundaries(string)
               \/ last.arg2 \notin Boundaries(string)) =>
              (last.panic /\ pos = last.prev))
    /\ [][last'.op = "slice" => (pos' = pos /\ string' = string)]_vars

\* a slice that ends inside a multi-byte character, within the buffer
SliceInsideCharWitness ==
    /\ last.op = "slice"
    /\ last.arg <= last.arg2
    /\ last.arg2 < Len(string)
    /\ last.arg \in Boundaries(string)
    /\ last.arg2 \notin Boundaries(string)
    /\ last.panic

(***************************************************************************)
(* Properties of set_pos and of the buffer.                                *)
(***************************************************************************)
\* C14: set_pos(p) sets the cursor to p whatever p is, beyond len() and
\* inside a multi-byte character included: it does not panic, pos() is p
\* right after it, and the buffer and its length are what they were.
SetPosIsUnconditional ==
    /\ [](last.op = "set_pos" => (pos = last.arg /\ ~last.panic))
    /\ [][last'.op = "set_pos" =>
            (string' = string /\ Len(string') = Len(string))]_vars

\* the cursor set beyond the end of the buffer
SetPosBeyondEndWitness ==
    /\ last.op = "set_pos"
    /\ last.arg > Len(string)
    /\ pos > Len(string)

\* the cursor set inside a multi-byte character
SetPosInsideCharWitness ==
    /\ last.op = "set_pos"
    /\ last.arg < Len(string)
    /\ pos \notin Boundaries(string)

(***************************************************************************)
(* More properties of line_col (SpecLineCol).                              *)
(***************************************************************************)
\* C15: line_col(0) is (1, 1) on every buffer, the empty one and those that
\* start with a line break included.
LineColOfZero ==
    (last.op = "line_col" /\ last.arg = 0) =>
        (~last.panic /\ last.lc = <<1, 1>>)

\* line_col(0) on a buffer that starts with a "\r\n" pair
LineColOfZeroWitness ==
    /\ last.op = "line_col"
    /\ last.arg = 0
    /\ Len(string) >= 2
    /\ string[1] = CR
    /\ string[2] = LF
    /\ ~last.panic

\* C16: for an offset k + 1 between the '\r' (at offset k) and the '\n' of
\* a "\r\n" pair, offsets counted as line_col counts them, line_col(k + 1)
\* returns what line_col(k + 2) returns, and that is
\* (line_col(k).line + 1, 1).
LineColInsidePair ==
    (last.op = "line_col" /\ InsideCRLF(string, last.arg)) =>
        LET before == line_col_of(string, last.arg - 1)
            after == line_col_of(string, last.arg + 1)
        IN /\ ~last.panic
           /\ ~before.panic
           /\ after = Returned(last.lc)
           /\ last.lc = <<before.lc[1] + 1, 1>>

\* offset 6 of the unit test's buffer, inside its "\r\n": (4, 1), as at
\* offset 7
LineColTestPairWitness ==
    /\ last.op = "line_col"
    /\ string = TestLineColText
    /\ last.arg = 6
    /\ InsideCRLF(string, last.arg)
    /\ last.lc = <<4, 1>>

(***************************************************************************)
(* Running out of input.                                                   *)
(***************************************************************************)
\* C17: when fewer bytes are left after the cursor than the literal of
\* matches is long, or than the bounds of between are wide, the call returns
\* false, does not panic and leaves the cursor where it was; so on the empty
\* buffer and with the cursor at len().
OutOfInputFails ==
    (\/ /\ last.op = "matches"
        /\ Len(string) - last.prev < Len(last.lit)
     \/ /\ last.op = "between"
        /\ len_utf8(last.left) = len_utf8(last.right)
        /\ Len(string) - last.prev < len_utf8(last.left)) =>
        (~last.ret /\ ~last.panic /\ pos = last.prev)

\* a literal that starts like what is left of the buffer but is longer
MatchesOutOfInputWitness ==
    /\ last.op = "matches"
    /\ last.prev > 0
    /\ last.prev < Len(string)
    /\ Len(string) - last.prev < Len(last.lit)
    /\ last.lit[1] = string[last.prev + 1]
    /\ ~last.ret

\* between with the cursor at the end of a buffer it has moved through
BetweenOutOfInputWitness ==
    /\ last.op = "between"
    /\ len_utf8(last.left) = len_utf8(last.right)
    /\ last.prev = Len(string)
    /\ last.prev > 0
    /\ ~last.ret

\* C18: no call changes the buffer: through matches, between, set_pos, slice
\* and line_col, successful or not, the bytes of the buffer and its length
\* stay those the constructor was given.
BufferNeverChanges ==
    [][string' = string /\ Len(string') = Len(string)]_vars

\* a failed matches after the cursor has been moved through the buffer
FailedAfterProgressWitness ==
    /\ last.op = "matches"
    /\ ~last.ret
    /\ last.lit # <<>>
    /\ last.prev > 0
    /\ last.prev \in Boundaries(string)
    /\ last.prev < Len(string)

(***************************************************************************)
(* Backtracking (SpecBacktrack).                                           *)
(***************************************************************************)
\* C19: once p = pos() is saved, whatever matches and between calls follow,
\* set_pos(p) puts the instance back as it was at the save point (the same
\* buffer, the cursor at p), and a call made from there again has the
\* outcome and leaves the cursor where the same call made from the save
\* point did.
BacktrackingIsExact ==
    /\ (probe.set /\ last.op = "set_pos") =>
            (pos = probe.at /\ string = probe.string /\ ~last.panic)
    /\ (probe.set /\ probe.call.op # "new" /\ SameCall(last, probe.call)) =>
            (last = probe.call /\ pos = probe.after /\ string = probe.string)

\* a literal matched from the save point, the cursor put back, and the
\* literal matched from there again
ReplayedWitness ==
    /\ probe.set
    /\ probe.replayed
    /\ probe.at > 0
    /\ probe.call.op = "matches"
    /\ probe.call.ret
    /\ Len(probe.call.lit) >= 2
    /\ SameCall(last, probe.call)

====
